---- MODULE Spec2Model ----
(***************************************************************************)
(* Cognito pre-token-generation trigger.                                   *)
(*                                                                         *)
(*   packages/cdk/lambda/pre_token_generation/index.py   handler           *)
(*   packages/cdk/lambda/pre_token_generation.py         lambda_handler    *)
(*                                                                         *)
(* An event is a Python dict; it is modelled as a function whose domain is *)
(* the set of keys the dict holds, so that a missing key is a key outside  *)
(* the domain and a subscript on it raises KeyError.  The handlers mutate  *)
(* the event in place and return it.  Every statement of a handler is one  *)
(* action; pc holds the source line the invocation executes next.          *)
(***************************************************************************)
EXTENDS Naturals, FiniteSets, Sequences, TLC

\* Number of invocations the platform runs side by side.
NumInvocations == 2
\* How many times in a row an entry point is applied to the same event object.
MaxCalls == 2

Inv == 1 .. NumInvocations

VARIABLES
    event,            \* event[i]: the event dict of invocation i (mutated in place)
    input,            \* input[i]: the event as it was when the current call began
    context,          \* context[i]: the context argument of the current call
    fn,               \* fn[i]: the entry point invocation i runs
    pc,               \* pc[i]: next source line, or "idle" / "done"
    user_attributes,  \* local of handler
    tenant_id,        \* local of handler
    outcome,          \* "none" | "returned" | "KeyError"
    calls             \* number of calls made on event[i] so far

vars == <<event, input, context, fn, pc, user_attributes, tenant_id, outcome, calls>>

----------------------------------------------------------------------------
\* Python values and dict operations

\* The keys and literals of the source.
TenantKey == "custom:tenant_id"
TagsUri == "https://aws.amazon.com/tags"
Placeholder == "<TENANT_ID>"

\* {} : the dict without keys.
EmptyDict == [k \in {} |-> k]

\* A local that holds no object yet, None, and a str object.
Unbound == [py |-> "unbound"]
None == [py |-> "None"]
Str(s) == [py |-> "str", v |-> s]

\* k in d
HasKey(d, k) == k \in DOMAIN d

\* d.get(k): the value, or None when the key is missing.
Get(d, k) == IF HasKey(d, k) THEN Str(d[k]) ELSE None

\* d[k] = v on a dict: every other key keeps its value.
SetItem(d, k, v) == (k :> v) @@ d

\* `if x is not None:` in place of `if x:`.
TruthyNotNone(x) == x.py = "str"

\* Truth value of an object in `if x:` : None and "" are false.
Truthy(x) == x.py = "str" /\ x.v # ""

\* d[p[1]][p[2]]... can be evaluated: every key of the path is there.
RECURSIVE HasPath(_, _)
HasPath(d, p) ==
    IF p = <<>> THEN TRUE
    ELSE HasKey(d, Head(p)) /\ HasPath(d[Head(p)], Tail(p))

\* d[p[1]][p[2]]...
RECURSIVE At(_, _)
At(d, p) == IF p = <<>> THEN d ELSE At(d[Head(p)], Tail(p))

\* The keys from the event down to the TenantID list.
OverridePath == <<"response", "claimsAndScopeOverrideDetails">>
TagPath == OverridePath \o <<"idTokenGeneration", "claimsToAddOrOverride", TagsUri>>
TenantListPath == TagPath \o <<"principal_tags", "TenantID">>

\* The literal with the placeholder of pre_token_generation.py in place of t.
ClaimsLiteralPlaceholder(t) ==
    [idTokenGeneration |->
        [claimsToAddOrOverride |->
            (TagsUri :> [principal_tags |-> [TenantID |-> <<"<TENANT_ID>">>]])]]

\* The dict literal of index.py lines 6-14 / pre_token_generation.py lines 2-10,
\* with t the single element of the TenantID list.
ClaimsLiteral(t) ==
    [idTokenGeneration |->
        [claimsToAddOrOverride |->
            (TagsUri :> [principal_tags |-> [TenantID |-> <<t>>]])]]

\* Outcome of a statement: the event after it, or the KeyError it raised.
Ok(ev) == [ok |-> TRUE, v |-> ev]
KeyError == [ok |-> FALSE]

----------------------------------------------------------------------------
\* The statements of the two entry points

\* index.py line 2 with the lookup replaced by chained .get(..., {}).
AttributesLenient(ev) ==
    IF HasKey(ev, "request") /\ HasKey(ev["request"], "userAttributes")
    THEN Ok(ev["request"]["userAttributes"])
    ELSE Ok(EmptyDict)

\* index.py line 2: event["request"]["userAttributes"]
Attributes(ev) ==
    IF HasKey(ev, "request") /\ HasKey(ev["request"], "userAttributes")
    THEN Ok(ev["request"]["userAttributes"])
    ELSE KeyError

\* index.py line 3: user_attributes.get("custom:tenant_id")
TenantOf(ua) == Get(ua, TenantKey)

\* The store of lines 6-14 appending to a TenantID list that is already there.
HandlerWriteAppend(ev, t) ==
    IF HasKey(ev, "response")
    THEN LET old == IF HasPath(ev, TenantListPath) THEN At(ev, TenantListPath) ELSE <<>>
         IN Ok(SetItem(ev, "response",
                   SetItem(ev["response"], "claimsAndScopeOverrideDetails",
                       [idTokenGeneration |->
                           [claimsToAddOrOverride |->
                               (TagsUri :>
                                   [principal_tags |-> [TenantID |-> Append(old, t)]])]])))
    ELSE KeyError

\* The store of lines 6-14 as a dict.update on the override details already there.
HandlerWriteMerge(ev, t) ==
    IF HasKey(ev, "response")
    THEN LET old == IF HasPath(ev, OverridePath) THEN At(ev, OverridePath) ELSE EmptyDict
         IN Ok(SetItem(ev, "response",
                   SetItem(ev["response"], "claimsAndScopeOverrideDetails",
                           ClaimsLiteral(t) @@ old)))
    ELSE KeyError

\* The store of lines 6-14 as event["response"] = {"claimsAndScopeOverrideDetails": ...}.
HandlerWriteWholeResponse(ev, t) ==
    IF HasKey(ev, "response")
    THEN Ok(SetItem(ev, "response", "claimsAndScopeOverrideDetails" :> ClaimsLiteral(t)))
    ELSE KeyError

\* index.py lines 6-14: event["response"]["claimsAndScopeOverrideDetails"] = {...}
HandlerWrite(ev, t) ==
    IF HasKey(ev, "response")
    THEN Ok(SetItem(ev, "response",
                SetItem(ev["response"], "claimsAndScopeOverrideDetails",
                        ClaimsLiteral(t))))
    ELSE KeyError

\* lambda_handler writing the user's tenant when the request carries one.
LambdaWriteFromRequest(ev) ==
    IF HasKey(ev, "response")
    THEN LET a == Attributes(ev)
             t == IF a.ok /\ Truthy(TenantOf(a.v)) THEN TenantOf(a.v).v ELSE Placeholder
         IN Ok(SetItem(ev, "response",
                   SetItem(ev["response"], "claimsAndScopeOverrideDetails",
                           ClaimsLiteral(t))))
    ELSE KeyError

\* pre_token_generation.py lines 2-10: the same store with the literal "<TENANT_ID>"
LambdaWrite(ev) ==
    IF HasKey(ev, "response")
    THEN Ok(SetItem(ev, "response",
                SetItem(ev["response"], "claimsAndScopeOverrideDetails",
                        ClaimsLiteral(Placeholder))))
    ELSE KeyError

\* A call of an entry point run on its own, as the composition of its statements.
Returned(ev) == [outcome |-> "returned", event |-> ev]
Raised(ev) == [outcome |-> "KeyError", event |-> ev]

\* index.py lines 1-15
handler(ev) ==
    LET a == Attributes(ev) IN
      IF ~a.ok THEN Raised(ev)
      ELSE LET t == TenantOf(a.v) IN
             IF Truthy(t)
             THEN LET w == HandlerWrite(ev, t.v) IN
                    IF w.ok THEN Returned(w.v) ELSE Raised(ev)
             ELSE Returned(ev)

\* pre_token_generation.py lines 1-11
lambda_handler(ev) ==
    LET w == LambdaWrite(ev) IN IF w.ok THEN Returned(w.v) ELSE Raised(ev)

----------------------------------------------------------------------------
\* The events the platform may pass

TenantValues == {"", "acme-42", "t2"}
Contexts == {"ctx-a", "ctx-b"}
EntryPoints == {"handler", "lambda_handler"}

\* request.userAttributes: always an e-mail, the tenant attribute optional.
UserAttributeMaps ==
    {("email" :> "a@example.com")}
      \cup {(TenantKey :> t) @@ ("email" :> "a@example.com") : t \in TenantValues}

Requests == {EmptyDict} \cup {[userAttributes |-> ua] : ua \in UserAttributeMaps}

\* claimsAndScopeOverrideDetails an earlier trigger may have left in the response:
\* another claim with a group override, and a tags claim listing other tenants.
PriorOverrides ==
    { [idTokenGeneration |-> [claimsToAddOrOverride |-> ("custom:role" :> "admin")],
       groupOverrideDetails |-> [groupsToOverride |-> <<"g1">>]],
      [idTokenGeneration |->
          [claimsToAddOrOverride |->
              (TagsUri :> [principal_tags |-> [TenantID |-> <<"old", "acme-42">>]])]] }

\* The entry k -> v for each v of S, and no entry at all.
OptEntries(k, S) == {EmptyDict} \cup {k :> v : v \in S}

Responses ==
    {c @@ o : c \in OptEntries("claimsAndScopeOverrideDetails", PriorOverrides),
              o \in OptEntries("trace", {"t-1"})}

Events ==
    {("userName" :> "alice") @@ rq @@ rs :
        rq \in OptEntries("request", Requests),
        rs \in OptEntries("response", Responses)}

\* The events of the concurrent specification: request and response are there, the
\* tenant attribute is missing or non-empty, and only an event of tenant acme-42
\* carries override details already.
ConcEvents ==
    {e \in Events :
        /\ HasKey(e, "request")
        /\ HasKey(e, "response")
        /\ ~HasKey(e["response"], "trace")
        /\ HasPath(e, <<"request", "userAttributes", TenantKey>>) =>
               At(e, <<"request", "userAttributes", TenantKey>>) # ""
        /\ HasPath(e, OverridePath) =>
               /\ HasPath(e, TenantListPath)
               /\ HasPath(e, <<"request", "userAttributes", TenantKey>>)
               /\ At(e, <<"request", "userAttributes", TenantKey>>) = "acme-42"}

----------------------------------------------------------------------------
\* Calls

\* First line of the body of entry point f.
Entry(f) == IF f = "handler" THEN "h2" ELSE "l2"

\* The statement at pc[i] raised KeyError: the call ends, the event is as it was.
Raise(i) ==
    /\ pc' = [pc EXCEPT ![i] = "done"]
    /\ outcome' = [outcome EXCEPT ![i] = "KeyError"]

\* handler line 2
ReadAttributes(i) ==
    /\ pc[i] = "h2"
    /\ LET a == Attributes(event[i]) IN
         IF a.ok
         THEN /\ user_attributes' = [user_attributes EXCEPT ![i] = a.v]
              /\ pc' = [pc EXCEPT ![i] = "h3"]
              /\ UNCHANGED outcome
         ELSE /\ Raise(i)
              /\ UNCHANGED user_attributes
    /\ UNCHANGED <<event, input, context, fn, tenant_id, calls>>

\* Line 3 with tenant_id a module-level name: one cell for every invocation.
GetTenantGlobal(i) ==
    /\ pc[i] = "h3"
    /\ tenant_id' = [j \in Inv |-> TenantOf(user_attributes[i])]
    /\ pc' = [pc EXCEPT ![i] = "h5"]
    /\ UNCHANGED <<event, input, context, fn, user_attributes, outcome, calls>>

\* handler line 3
GetTenant(i) ==
    /\ pc[i] = "h3"
    /\ tenant_id' = [tenant_id EXCEPT ![i] = TenantOf(user_attributes[i])]
    /\ pc' = [pc EXCEPT ![i] = "h5"]
    /\ UNCHANGED <<event, input, context, fn, user_attributes, outcome, calls>>

\* Line 5 consulting the context: a call with context ctx-b never injects.
TestTenantByContext(i) ==
    /\ pc[i] = "h5"
    /\ pc' = [pc EXCEPT ![i] =
                 IF Truthy(tenant_id[i]) /\ context[i] # "ctx-b" THEN "h6" ELSE "h15"]
    /\ UNCHANGED <<event, input, context, fn, user_attributes, tenant_id, outcome, calls>>

\* handler line 5
TestTenant(i) ==
    /\ pc[i] = "h5"
    /\ pc' = [pc EXCEPT ![i] = IF Truthy(tenant_id[i]) THEN "h6" ELSE "h15"]
    /\ UNCHANGED <<event, input, context, fn, user_attributes, tenant_id, outcome, calls>>

\* handler lines 6-14
WriteClaims(i) ==
    /\ pc[i] = "h6"
    /\ LET w == HandlerWrite(event[i], tenant_id[i].v) IN
         IF w.ok
         THEN /\ event' = [event EXCEPT ![i] = w.v]
              /\ pc' = [pc EXCEPT ![i] = "h15"]
              /\ UNCHANGED outcome
         ELSE /\ Raise(i)
              /\ UNCHANGED event
    /\ UNCHANGED <<input, context, fn, user_attributes, tenant_id, calls>>

\* handler line 15
ReturnEvent(i) ==
    /\ pc[i] = "h15"
    /\ pc' = [pc EXCEPT ![i] = "done"]
    /\ outcome' = [outcome EXCEPT ![i] = "returned"]
    /\ UNCHANGED <<event, input, context, fn, user_attributes, tenant_id, calls>>

\* lambda_handler lines 2-10
LambdaWriteClaims(i) ==
    /\ pc[i] = "l2"
    /\ LET w == LambdaWrite(event[i]) IN
         IF w.ok
         THEN /\ event' = [event EXCEPT ![i] = w.v]
              /\ pc' = [pc EXCEPT ![i] = "l11"]
              /\ UNCHANGED outcome
         ELSE /\ Raise(i)
              /\ UNCHANGED event
    /\ UNCHANGED <<input, context, fn, user_attributes, tenant_id, calls>>

\* lambda_handler line 11
LambdaReturn(i) ==
    /\ pc[i] = "l11"
    /\ pc' = [pc EXCEPT ![i] = "done"]
    /\ outcome' = [outcome EXCEPT ![i] = "returned"]
    /\ UNCHANGED <<event, input, context, fn, user_attributes, tenant_id, calls>>

\* The entry point is called again on the event it returned, with any context:
\* a new frame, the same event object.
Reapply(i) ==
    /\ pc[i] = "done"
    /\ outcome[i] = "returned"
    /\ calls[i] < MaxCalls
    /\ \E c \in Contexts : context' = [context EXCEPT ![i] = c]
    /\ input' = [input EXCEPT ![i] = event[i]]
    /\ pc' = [pc EXCEPT ![i] = Entry(fn[i])]
    /\ user_attributes' = [user_attributes EXCEPT ![i] = Unbound]
    /\ tenant_id' = [tenant_id EXCEPT ![i] = Unbound]
    /\ outcome' = [outcome EXCEPT ![i] = "none"]
    /\ calls' = [calls EXCEPT ![i] = calls[i] + 1]
    /\ UNCHANGED <<event, fn>>

\* One statement of invocation i.
Step(i) ==
    \/ ReadAttributes(i)
    \/ GetTenant(i)
    \/ TestTenant(i)
    \/ WriteClaims(i)
    \/ ReturnEvent(i)
    \/ LambdaWriteClaims(i)
    \/ LambdaReturn(i)

----------------------------------------------------------------------------
\* One invocation at a time: invocation 1 is called with any event, any context
\* and either entry point; the other invocations are never started.

Init ==
    \E e \in Events, c \in Contexts, f \in EntryPoints :
        /\ event = [i \in Inv |-> IF i = 1 THEN e ELSE EmptyDict]
        /\ input = event
        /\ context = [i \in Inv |-> c]
        /\ fn = [i \in Inv |-> f]
        /\ pc = [i \in Inv |-> IF i = 1 THEN Entry(f) ELSE "idle"]
        /\ user_attributes = [i \in Inv |-> Unbound]
        /\ tenant_id = [i \in Inv |-> Unbound]
        /\ outcome = [i \in Inv |-> "none"]
        /\ calls = [i \in Inv |-> IF i = 1 THEN 1 ELSE 0]

Next == Step(1) \/ Reapply(1)

Spec == Init /\ [][Next]_vars

\* All invocations run side by side, each on an event record of its own.

InitConc ==
    /\ event \in [Inv -> ConcEvents]
    /\ input = event
    /\ context \in [Inv -> Contexts]
    /\ fn \in [Inv -> EntryPoints]
    /\ pc = [i \in Inv |-> Entry(fn[i])]
    /\ user_attributes = [i \in Inv |-> Unbound]
    /\ tenant_id = [i \in Inv |-> Unbound]
    /\ outcome = [i \in Inv |-> "none"]
    /\ calls = [i \in Inv |-> 1]

NextConc == \E i \in Inv : Step(i)

SpecConc == InitConc /\ [][NextConc]_vars

----------------------------------------------------------------------------
\* Properties

\* The event the current call of invocation i was given.
HasAttributes(e) == HasPath(e, <<"request", "userAttributes">>)
HasResponse(e) == HasKey(e, "response")
HasTenant(e) ==
    /\ HasPath(e, <<"request", "userAttributes", TenantKey>>)
    /\ At(e, <<"request", "userAttributes", TenantKey>>) # ""
InputTenant(i) == At(input[i], <<"request", "userAttributes", TenantKey>>)

Finished(i) == pc[i] = "done"
HasReturned(i) == pc[i] = "done" /\ outcome[i] = "returned"
HasRaised(i) == pc[i] = "done" /\ outcome[i] = "KeyError"

\* The part of a dict outside key k.
Without(d, k) == [x \in DOMAIN d \ {k} |-> d[x]]

\* The event outside response.claimsAndScopeOverrideDetails.
Untouched(e) ==
    IF HasResponse(e)
    THEN SetItem(e, "response", Without(e["response"], "claimsAndScopeOverrideDetails"))
    ELSE e

\* The two responses are the same: both missing, or both there and equal.
SameResponse(e1, e2) ==
    /\ HasResponse(e1) <=> HasResponse(e2)
    /\ HasResponse(e1) => e1["response"] = e2["response"]

\* C1: when the event has a response mapping and the attributes hold a non-empty
\* tenant id T, handler returns and the TenantID list of the tags claim is <<T>>.
C1_TenantListIsT ==
    \A i \in Inv :
        (fn[i] = "handler" /\ Finished(i)
            /\ HasResponse(input[i]) /\ HasTenant(input[i]))
        => /\ outcome[i] = "returned"
           /\ HasPath(event[i], TenantListPath)
           /\ At(event[i], TenantListPath) = <<InputTenant(i)>>

\* Scenario 1 has run: tenant acme-42, response {} on entry, handler has returned.
C1_Witness ==
    /\ fn[1] = "handler" /\ HasReturned(1) /\ calls[1] = 1
    /\ HasTenant(input[1]) /\ InputTenant(1) = "acme-42"
    /\ HasResponse(input[1]) /\ input[1]["response"] = EmptyDict

\* C2: when the attribute mapping is there and the tenant id is missing or empty,
\* handler returns without an error and the response is the one it was given.
C2_ResponseUnchanged ==
    \A i \in Inv :
        (fn[i] = "handler" /\ Finished(i)
            /\ HasAttributes(input[i]) /\ ~HasTenant(input[i]))
        => /\ outcome[i] = "returned"
           /\ SameResponse(event[i], input[i])

\* handler has returned on an event whose tenant id is the empty string.
C2_Witness ==
    /\ fn[1] = "handler" /\ HasReturned(1)
    /\ HasPath(input[1], <<"request", "userAttributes", TenantKey>>)
    /\ ~HasTenant(input[1])
    /\ HasResponse(input[1])

\* C3: for either entry point, on an event with attributes and a response without
\* override details, after the return the tags claim is in the response if and
\* only if the attributes held a non-empty tenant id.
C3_ClaimIffTenant ==
    \A i \in Inv :
        (HasReturned(i) /\ HasAttributes(input[i]) /\ HasResponse(input[i])
            /\ ~HasPath(input[i], OverridePath))
        => (HasPath(event[i], TagPath) <=> HasTenant(input[i]))

\* C4: when request.userAttributes is missing, handler ends in an error and the
\* event is as it was given.
C4_MissingAttributesRaise ==
    \A i \in Inv :
        (fn[i] = "handler" /\ Finished(i) /\ ~HasAttributes(input[i]))
        => /\ outcome[i] = "KeyError"
           /\ event[i] = input[i]

\* handler has ended on an event with a request that has no userAttributes.
C4_Witness ==
    /\ fn[1] = "handler" /\ Finished(1)
    /\ HasKey(input[1], "request") /\ ~HasAttributes(input[1])
    /\ HasPath(input[1], OverridePath)

\* C5: an entry point applied to the event it returned returns that event again,
\* and a TenantID list it wrote has one element.
C5_Idempotent ==
    \A i \in Inv :
        (HasReturned(i) /\ calls[i] >= 2)
        => /\ event[i] = input[i]
           /\ (fn[i] = "lambda_handler" \/ HasTenant(input[i]))
                  => /\ HasPath(event[i], TenantListPath)
                     /\ Len(At(event[i], TenantListPath)) = 1

\* handler has returned from its second call on an event it injected the claim into.
C5_Witness ==
    /\ fn[1] = "handler" /\ HasReturned(1) /\ calls[1] = 2
    /\ HasTenant(input[1]) /\ HasPath(event[1], TenantListPath)

\* C6: when an entry point returns, the event outside
\* response.claimsAndScopeOverrideDetails is as it was given.
C6_RestUnchanged ==
    \A i \in Inv :
        HasReturned(i) => Untouched(event[i]) = Untouched(input[i])

\* handler has injected the claim into a response that holds another key.
C6_Witness ==
    /\ fn[1] = "handler" /\ HasReturned(1)
    /\ HasTenant(input[1])
    /\ HasPath(input[1], <<"response", "trace">>)
    /\ event[1] # input[1]

\* C7: under every interleaving, an invocation that has ended has the outcome and
\* the event of its entry point run alone on its own event, and while it runs its
\* event is the one it was given or the one it will return.
C7_AsRunAlone ==
    \A i \in Inv :
        LET alone == IF fn[i] = "handler" THEN handler(input[i])
                     ELSE lambda_handler(input[i])
        IN /\ Finished(i) => (outcome[i] = alone.outcome /\ event[i] = alone.event)
           /\ event[i] \in {input[i], alone.event}

\* Two invocations of handler with different tenants have both injected a claim.
C7_Witness ==
    /\ fn[1] = "handler" /\ fn[2] = "handler"
    /\ HasReturned(1) /\ HasReturned(2)
    /\ HasTenant(input[1]) /\ HasTenant(input[2])
    /\ InputTenant(1) # InputTenant(2)
    /\ event[1] # input[1] /\ event[2] # input[2]

\* C8: two ended invocations of the same entry point on equal events have equal
\* outcomes and equal events, whatever their contexts.
C8_Deterministic ==
    \A i, j \in Inv :
        (Finished(i) /\ Finished(j) /\ fn[i] = fn[j] /\ input[i] = input[j])
        => /\ outcome[i] = outcome[j]
           /\ event[i] = event[j]

\* Two invocations of handler on equal events with a tenant, under different contexts.
C8_Witness ==
    /\ fn[1] = "handler" /\ fn[2] = "handler"
    /\ Finished(1) /\ Finished(2)
    /\ input[1] = input[2] /\ HasTenant(input[1])
    /\ context[1] # context[2]

\* C9: when handler injects the claim, claimsAndScopeOverrideDetails holds the key
\* idTokenGeneration alone, under it claimsToAddOrOverride alone, under it the
\* tags URI alone with the value {"principal_tags": {"TenantID": [T]}}.
C9_OverrideReplaced ==
    \A i \in Inv :
        (fn[i] = "handler" /\ HasReturned(i) /\ HasTenant(input[i]))
        => /\ HasPath(event[i], OverridePath)
           /\ LET o == At(event[i], OverridePath) IN
                /\ DOMAIN o = {"idTokenGeneration"}
                /\ DOMAIN o["idTokenGeneration"] = {"claimsToAddOrOverride"}
                /\ DOMAIN o["idTokenGeneration"]["claimsToAddOrOverride"] = {TagsUri}
                /\ o["idTokenGeneration"]["claimsToAddOrOverride"][TagsUri]
                       = [principal_tags |-> [TenantID |-> <<InputTenant(i)>>]]

\* handler has injected into a response that carried a group override.
C9_Witness ==
    /\ fn[1] = "handler" /\ HasReturned(1)
    /\ HasTenant(input[1])
    /\ HasPath(input[1], OverridePath \o <<"groupOverrideDetails">>)

\* C10: on an event with a response, lambda_handler returns whatever the request
\* holds, and the response is the one it was given with the override details set
\* to the tags claim whose TenantID list is <<"<TENANT_ID>">>.
C10_PlaceholderAlways ==
    \A i \in Inv :
        (fn[i] = "lambda_handler" /\ Finished(i) /\ HasResponse(input[i]))
        => /\ outcome[i] = "returned"
           /\ event[i]["response"] =
                  SetItem(input[i]["response"], "claimsAndScopeOverrideDetails",
                      [idTokenGeneration |->
                          [claimsToAddOrOverride |->
                              (TagsUri :>
                                  [principal_tags |-> [TenantID |-> <<"<TENANT_ID>">>]])]])

\* lambda_handler has returned on an event whose attributes hold a tenant id.
C10_Witness ==
    /\ fn[1] = "lambda_handler" /\ HasReturned(1) /\ calls[1] = 1
    /\ HasTenant(input[1])

====
